---------------------------- MODULE Spec2Model ----------------------------
(***************************************************************************)
(* A model of src/main.js: the observable stores (createState), the        *)
(* product fetcher (fetchProducts), the renderer (renderProducts) and the  *)
(* three handlers (handleFilterChange, handleSortChange, loadMoreProducts) *)
(* with init.  One action is one event-loop task: the synchronous part of  *)
(* a handler up to its await, or the part that runs when its fetch         *)
(* settles.  The effects a task performs are kept, in order, in a trace.   *)
(***************************************************************************)
EXTENDS Integers, Sequences, FiniteSets

\* ------------------------------------------------------------------ bounds

\* Largest catalog the remote endpoint returns.
MaxCatalog == 25

\* Most filter and sort changes the user makes once the listeners are attached
\* (so at most this many handlers are suspended at one time).
MaxChanges == 3

\* Longest catalog given to the fetcher on its own.
MaxData == 3

\* Most subscribers registered on the store exercised on its own.
MaxListeners == 3

\* ------------------------------------------------------- program constants

\* The page size of slice(0, 10) and slice(length, length + 10).
PageSize == 10

\* ------------------------------------------------------------ the page

\* The value attributes of the .filter-checkbox inputs, in document order.
Checkboxes == <<"Shoes", "hats">>

\* The option values of #sort-dropdown.
SortOptions == {"price", "name"}

\* Categories as the remote catalog spells them.
Categories == <<"shoes", "Hats", "bags">>

\* Titles as the remote catalog spells them.
Titles == <<"apple", "Banana", "cherry", "Date">>

\* Prices of the remote catalog, in cents.
Prices == <<1999, 500, 10950, 500, 725>>

\* ------------------------------------------------------------ strings

\* String.prototype.toLowerCase on the strings the model uses.
ToLowerCase(s) ==
  CASE s = "Shoes" -> "shoes"
    [] s = "SHOES" -> "shoes"
    [] s = "Hats" -> "hats"
    [] s = "HATS" -> "hats"
    [] s = "Bags" -> "bags"
    [] OTHER -> s

\* The collation rank of a title: localeCompare orders letters before case,
\* so "apple" < "Banana" < "cherry" < "Date" (code-point order would not).
TitleRank(t) ==
  CASE t = "apple" -> 1
    [] t = "Banana" -> 2
    [] t = "cherry" -> 3
    [] t = "Date" -> 4
    [] OTHER -> 0

\* a.localeCompare(b): negative, zero or positive.
LocaleCompare(a, b) == TitleRank(a) - TitleRank(b)

\* Number.prototype.toFixed(2) of a price held in cents: <<units, hundredths>>.
ToFixed2(price) == <<price \div 100, price % 100>>

\* ------------------------------------------------------------ sequences

\* Array.prototype.slice(from, to) with 0-based, end-exclusive indexes.
Slice(s, from, to) ==
  LET lo == IF from > Len(s) THEN Len(s) ELSE from
      hi == IF to > Len(s) THEN Len(s) ELSE to
  IN  IF hi <= lo THEN <<>> ELSE SubSeq(s, lo + 1, hi)

IsPrefix(s, t) ==
  /\ Len(s) <= Len(t)
  /\ \A i \in 1..Len(s) : s[i] = t[i]

Min(a, b) == IF a <= b THEN a ELSE b

RemoveAt(s, i) == SubSeq(s, 1, i - 1) \o SubSeq(s, i + 1, Len(s))

\* ------------------------------------------------------------ the catalog

\* The i-th product of the remote response.
Product(i) ==
  [ id       |-> i,
    title    |-> Titles[((i * 3) % Len(Titles)) + 1],
    price    |-> Prices[((i * 2) % Len(Prices)) + 1],
    category |-> Categories[(i % Len(Categories)) + 1] ]

\* The remote response with n products.
MakeCatalog(n) == [i \in 1..n |-> Product(i)]

\* The responses the endpoint may give.
Catalogs == { MakeCatalog(MaxCatalog) }

\* ------------------------------------------------------------ fetchProducts

\* The comparison without toLowerCase.
CategoryMatchesExactCase(product, filter) == product.category = filter

\* product.category.toLowerCase() === filter.toLowerCase(), line 36.
CategoryMatches(product, filter) ==
  ToLowerCase(product.category) = ToLowerCase(filter)

\* filters.some(...)
MatchesSome(product, filters) ==
  \E j \in 1..Len(filters) : CategoryMatches(product, filters[j])

\* The category filter of lines 31-39.
ApplyFilters(data, filters) ==
  IF Len(filters) > 0
    THEN SelectSeq(data, LAMBDA p : MatchesSome(p, filters))
    ELSE data

\* The comparators of lines 43 and 45.
ByPrice(a, b) == a.price - b.price

ByTitle(a, b) == LocaleCompare(a.title, b.title)

\* The comparator the sort of the given key is called with.
Compare(sortKey, a, b) ==
  IF sortKey = "price" THEN ByPrice(a, b) ELSE ByTitle(a, b)

\* A sort that puts x before the elements it ties with.
InsertSortedBeforeTies(sorted, x, sortKey) ==
  LET k == Cardinality({ j \in 1..Len(sorted) :
                           Compare(sortKey, sorted[j], x) < 0 })
  IN  SubSeq(sorted, 1, k) \o <<x>> \o SubSeq(sorted, k + 1, Len(sorted))

\* Array.prototype.sort: a stable sort by the comparator's sign.  x goes
\* behind every element of the sorted part that does not come after it.
InsertSorted(sorted, x, sortKey) ==
  LET k == Cardinality({ j \in 1..Len(sorted) :
                           Compare(sortKey, sorted[j], x) <= 0 })
  IN  SubSeq(sorted, 1, k) \o <<x>> \o SubSeq(sorted, k + 1, Len(sorted))

SortSeq(s, sortKey) ==
  LET f[i \in 0..Len(s)] ==
        IF i = 0 THEN <<>> ELSE InsertSorted(f[i - 1], s[i], sortKey)
  IN  f[Len(s)]

\* The sorting of lines 41-46: by price, by name, or not at all.
ApplySort(products, sortKey) ==
  IF sortKey = "price" THEN SortSeq(products, "price")
  ELSE IF sortKey = "name" THEN SortSeq(products, "name")
  ELSE products

\* What fetchProducts(filters, sortKey) returns when the endpoint answers
\* with data.
FetchProducts(data, filters, sortKey) ==
  ApplySort(ApplyFilters(data, filters), sortKey)

\* ------------------------------------------------------------ state

VARIABLES
  catalog,               \* what the endpoint answers with
  productsState,         \* createState([]): all products
  visibleProductsState,  \* createState([]): the visible products
  filtersState,          \* createState([]): the selected filters
  isLoading,             \* createState(false)
  cell,                  \* one more createState instance, exercised on its own
  dom,                   \* the page: inputs, load-more button, container, counter
  inflight,              \* handler invocations suspended at their await, oldest first
  started,               \* init() has been called
  wired,                 \* init has attached the event listeners
  ev,                    \* the task that ran last, with the effects it performed
  hadReset,              \* the visible window has been reset at least once
  loadsSinceReset,       \* load-more invocations since the last reset
  loadingAborted,        \* an init or filter change was aborted by its fetch
                         \* and none has run to its end since
  changes,               \* filter and sort changes handled so far
  anyFailed,             \* a fetch has failed
  latestResolved,        \* the fetch that resolved last is that of the filter
                         \* or sort change made last
  fq,                    \* the fetcher exercised on its own: its arguments
  fr                     \* ... and its result

vars ==
  << catalog, productsState, visibleProductsState, filtersState, isLoading,
     cell, dom, inflight, started, wired, ev, hadReset, loadsSinceReset,
     loadingAborted, changes, anyFailed, latestResolved, fq, fr >>

appVars ==
  << catalog, productsState, visibleProductsState, filtersState, isLoading,
     dom, inflight, started, wired, hadReset, loadsSinceReset,
     loadingAborted, changes, anyFailed, latestResolved >>

\* ------------------------------------------------------------ createState

CreateState(initialState) == [state |-> initialState, listeners |-> <<>>]

GetState(store) == store.state

\* The stores, the page and the log of effects, as one value the steps of a
\* task transform in turn.
Mem(trace, renders) ==
  [ productsState        |-> productsState,
    visibleProductsState |-> visibleProductsState,
    filtersState         |-> filtersState,
    isLoading            |-> isLoading,
    cell                 |-> cell,
    dom                  |-> dom,
    trace                |-> trace,
    renders              |-> renders,
    probes               |-> <<>> ]

Effect(op, target, val) == [op |-> op, target |-> target, val |-> val]

Log(m, op, target, val) ==
  [m EXCEPT !.trace = Append(@, Effect(op, target, val))]

\* One card of the container: image, title and formatted price.
Card(product) ==
  [ image |-> product.id,
    title |-> product.title,
    price |-> ToFixed2(product.price) ]

\* What one run of the renderer puts on the page, with the full sequence
\* held at that moment: the placeholder, or the cards of the visible window.
Drawn(loading, visibleProducts, allProducts) ==
  IF loading
    THEN [loading |-> TRUE, visible |-> <<>>, products |-> <<>>]
    ELSE [loading |-> FALSE, visible |-> visibleProducts,
          products |-> allProducts]

\* The renderer with the counter written after the loading guard.
RenderProductsCountAfterGuard(m) ==
  LET visibleProducts == GetState(m.visibleProductsState)
      loading == GetState(m.isLoading) = TRUE
      seen == Drawn(loading, visibleProducts, GetState(m.productsState))
  IN  [m EXCEPT
         !.renders = Append(@, seen),
         !.dom.resultsCount = IF loading THEN @ ELSE Len(visibleProducts),
         !.dom.container =
            IF loading
              THEN [text |-> "Loading...", cards |-> <<>>]
              ELSE [text |-> "",
                    cards |-> [i \in 1..Len(visibleProducts) |->
                                 Card(visibleProducts[i])]]]

\* renderProducts, lines 52-84: the counter first, then the placeholder or
\* the cards.
RenderProducts(m) ==
  LET visibleProducts == GetState(m.visibleProductsState)
      loading == GetState(m.isLoading) = TRUE
      seen == Drawn(loading, visibleProducts, GetState(m.productsState))
  IN  [m EXCEPT
         !.renders = Append(@, seen),
         !.dom.resultsCount = Len(visibleProducts),
         !.dom.container =
            IF loading
              THEN [text |-> "Loading...", cards |-> <<>>]
              ELSE [text |-> "",
                    cards |-> [i \in 1..Len(visibleProducts) |->
                                 Card(visibleProducts[i])]]]

\* A subscriber of the store exercised on its own: it re-reads the store.
Probes == {"probeA", "probeB", "probeC"}

CallProbe(m, listener) ==
  [m EXCEPT !.probes =
     Append(@, [listener |-> listener, read |-> GetState(m.cell)])]

\* listener(): a call with no arguments.
Call(m, listener) ==
  LET m1 == Log(m, "call", listener, <<>>)
  IN  IF listener = "renderProducts" THEN RenderProducts(m1)
      ELSE CallProbe(m1, listener)

\* listeners.forEach((listener) => listener()), line 10.
Notify(m, listeners) ==
  LET f[i \in 0..Len(listeners)] ==
        IF i = 0 THEN m ELSE Call(f[i - 1], listeners[i])
  IN  f[Len(listeners)]

\* setState with the two statements of its body swapped.
SetStateNotifyFirst(m, name, newState) ==
  LET m1 == Notify(Log(m, "setState", name, newState), m[name].listeners)
  IN  [m1 EXCEPT ![name].state = newState]

\* setState, lines 8-11: replace the value, then notify.
SetState(m, name, newState) ==
  LET m1 == Log([m EXCEPT ![name].state = newState], "setState", name, newState)
  IN  Notify(m1, m1[name].listeners)

\* subscribe, lines 12-14.
Subscribe(m, name, listener) ==
  Log([m EXCEPT ![name].listeners = Append(@, listener)],
      "subscribe", name, listener)

\* document.getElementById("load-more").style.display = value
SetLoadMoreDisplay(m, value) ==
  Log([m EXCEPT !.dom.loadMore = value], "dom", "load-more", value)

\* The fetchProducts call a handler suspends at.
CallFetch(m, filters, sortKey) ==
  Log(m, "fetch", "fetchProducts", [filters |-> filters, sortKey |-> sortKey])

\* ------------------------------------------------------------ handlers

\* The whole sequence in place of its first page.
FirstPageAll(products) == products

\* First page of a fetched sequence: updatedProducts.slice(0, 10).
FirstPage(products) == Slice(products, 0, PageSize)

\* loadMoreProducts slicing from the start of the sequence.
LoadMoreProductsFromStart(m) ==
  LET allProducts == GetState(m.productsState)
      visibleProducts == GetState(m.visibleProductsState)
      nextProducts == Slice(allProducts, 0, PageSize)
      m1 == SetState(m, "visibleProductsState", visibleProducts \o nextProducts)
  IN  IF Len(GetState(m1.visibleProductsState)) >= Len(allProducts)
        THEN SetLoadMoreDisplay(m1, "none")
        ELSE m1

\* loadMoreProducts, lines 87-101.
LoadMoreProducts(m) ==
  LET allProducts == GetState(m.productsState)
      visibleProducts == GetState(m.visibleProductsState)
      nextProducts == Slice(allProducts, Len(visibleProducts),
                            Len(visibleProducts) + PageSize)
      m1 == SetState(m, "visibleProductsState", visibleProducts \o nextProducts)
  IN  IF Len(GetState(m1.visibleProductsState)) >= Len(allProducts)
        THEN SetLoadMoreDisplay(m1, "none")
        ELSE m1

\* The values of the checked checkboxes, in document order (lines 106-109).
SelectedFilters(d) ==
  LET f[i \in 0..Len(Checkboxes)] ==
        IF i = 0 THEN <<>>
        ELSE IF d.checked[i] THEN Append(f[i - 1], Checkboxes[i])
        ELSE f[i - 1]
  IN  f[Len(Checkboxes)]

\* handleFilterChange up to its await, lines 105-119.
FilterChangeBegin(m) ==
  LET m1 == SetState(m, "isLoading", TRUE)
      m2 == SetState(m1, "filtersState", SelectedFilters(m1.dom))
      sortedBy == m2.dom.sortValue
  IN  CallFetch(m2, GetState(m2.filtersState), sortedBy)

\* handleFilterChange never clearing the loading flag.
FilterChangeEndNoReset(m, updatedProducts) ==
  LET m1 == SetState(m, "productsState", updatedProducts)
      m2 == SetState(m1, "visibleProductsState", FirstPage(updatedProducts))
  IN  SetLoadMoreDisplay(m2, "block")

\* handleFilterChange clearing the loading flag last, as init does.
FilterChangeEndFlagLast(m, updatedProducts) ==
  LET m1 == SetState(m, "productsState", updatedProducts)
      m2 == SetState(m1, "visibleProductsState", FirstPage(updatedProducts))
      m3 == SetLoadMoreDisplay(m2, "block")
  IN  SetState(m3, "isLoading", FALSE)

\* handleFilterChange after its await, lines 121-124.
FilterChangeEnd(m, updatedProducts) ==
  LET m1 == SetState(m, "productsState", updatedProducts)
      m2 == SetState(m1, "isLoading", FALSE)
      m3 == SetState(m2, "visibleProductsState", FirstPage(updatedProducts))
  IN  SetLoadMoreDisplay(m3, "block")

\* handleSortChange setting the loading flag as handleFilterChange does.
SortChangeBeginWithFlag(m) ==
  LET m1 == SetState(m, "isLoading", TRUE)
      sortedBy == m1.dom.sortValue
  IN  CallFetch(m1, GetState(m1.filtersState), sortedBy)

\* handleSortChange fetching with no filters.
SortChangeBeginNoFilters(m) ==
  LET sortedBy == m.dom.sortValue
  IN  CallFetch(m, <<>>, sortedBy)

\* handleSortChange up to its await, lines 129-135.
SortChangeBegin(m) ==
  LET sortedBy == m.dom.sortValue
  IN  CallFetch(m, GetState(m.filtersState), sortedBy)

\* handleSortChange writing the visible window before the product sequence.
SortChangeEndWindowFirst(m, updatedProducts) ==
  LET m1 == SetState(m, "visibleProductsState", FirstPage(updatedProducts))
      m2 == SetState(m1, "productsState", updatedProducts)
  IN  SetLoadMoreDisplay(m2, "block")

\* handleSortChange leaving the load-more button as it is.
SortChangeEndKeepButton(m, updatedProducts) ==
  LET m1 == SetState(m, "productsState", updatedProducts)
  IN  SetState(m1, "visibleProductsState", FirstPage(updatedProducts))

\* handleSortChange after its await, lines 137-139.
SortChangeEnd(m, updatedProducts) ==
  LET m1 == SetState(m, "productsState", updatedProducts)
      m2 == SetState(m1, "visibleProductsState", FirstPage(updatedProducts))
  IN  SetLoadMoreDisplay(m2, "block")

\* init up to its await, lines 144-150; fetchProducts() takes its defaults.
InitBegin(m) ==
  LET m1 == Subscribe(m, "visibleProductsState", "renderProducts")
      m2 == Subscribe(m1, "isLoading", "renderProducts")
      m3 == SetState(m2, "isLoading", TRUE)
  IN  CallFetch(m3, <<>>, "price")

\* init after its await, lines 151-153 (the listeners of lines 155-170 are
\* attached by the action).
InitEnd(m, initialProducts) ==
  LET m1 == SetState(m, "productsState", initialProducts)
      m2 == SetState(m1, "visibleProductsState", FirstPage(initialProducts))
  IN  SetState(m2, "isLoading", FALSE)

\* The part of a handler that runs when its fetch has resolved.
Resume(kind, m, result) ==
  CASE kind = "init"   -> InitEnd(m, result)
    [] kind = "filter" -> FilterChangeEnd(m, result)
    [] kind = "sort"   -> SortChangeEnd(m, result)

\* ------------------------------------------------------------ actions

\* A handler invocation suspended at `await fetchProducts(...)`.
Pending(kind, m) ==
  [ kind      |-> kind,
    filters   |-> m.trace[Len(m.trace)].val.filters,
    sortKey   |-> m.trace[Len(m.trace)].val.sortKey,
    trace     |-> m.trace,
    renders   |-> m.renders,
    overtaken |-> FALSE ]

Event(op, kind, filters, sortKey, overtaken, m) ==
  [ op        |-> op,
    kind      |-> kind,
    filters   |-> filters,
    sortKey   |-> sortKey,
    overtaken |-> overtaken,
    trace     |-> m.trace,
    renders   |-> m.renders,
    probes    |-> m.probes ]

NoEvent ==
  [ op |-> "none", kind |-> "none", filters |-> <<>>, sortKey |-> "",
    overtaken |-> FALSE, trace |-> <<>>, renders |-> <<>>, probes |-> <<>> ]

\* The task leaves the stores and the page as m has them.
Commit(m) ==
  /\ productsState' = m.productsState
  /\ visibleProductsState' = m.visibleProductsState
  /\ filtersState' = m.filtersState
  /\ isLoading' = m.isLoading
  /\ cell' = m.cell
  /\ dom' = m.dom

\* init(), line 188, up to the await of line 150.
StartInit ==
  /\ ~started
  /\ LET m == InitBegin(Mem(<<>>, <<>>))
     IN  /\ Commit(m)
         /\ inflight' = Append(inflight, Pending("init", m))
         /\ ev' = Event("begin", "init", <<>>, "price", FALSE, m)
  /\ started' = TRUE
  /\ UNCHANGED <<catalog, wired, hadReset, loadsSinceReset, loadingAborted,
                 changes, anyFailed, latestResolved, fq, fr>>

\* The user toggles checkbox i; once the listeners are attached the change
\* event runs handleFilterChange up to its await.
ToggleCheckbox(i) ==
  /\ started
  /\ LET toggled == [dom EXCEPT !.checked[i] = ~@]
         m0 == [Mem(<<>>, <<>>) EXCEPT !.dom = toggled]
     IN  IF wired
           THEN /\ changes < MaxChanges
                /\ changes' = changes + 1
                /\ LET m == FilterChangeBegin(m0)
                       h == Pending("filter", m)
                   IN  /\ Commit(m)
                       /\ inflight' = Append(inflight, h)
                       /\ ev' = Event("begin", "filter", h.filters, h.sortKey,
                                      FALSE, m)
           ELSE /\ Commit(m0)
                /\ changes' = changes
                /\ inflight' = inflight
                /\ ev' = Event("input", "none", <<>>, "", FALSE, m0)
  /\ latestResolved' = (latestResolved /\ ~wired)
  /\ UNCHANGED <<catalog, started, wired, hadReset, loadsSinceReset,
                 loadingAborted, anyFailed, fq, fr>>

\* The user picks another sort option; once the listeners are attached the
\* change event runs handleSortChange up to its await.
SelectSort(k) ==
  /\ started
  /\ k # dom.sortValue
  /\ LET m0 == [Mem(<<>>, <<>>) EXCEPT !.dom.sortValue = k]
     IN  IF wired
           THEN /\ changes < MaxChanges
                /\ changes' = changes + 1
                /\ LET m == SortChangeBegin(m0)
                       h == Pending("sort", m)
                   IN  /\ Commit(m)
                       /\ inflight' = Append(inflight, h)
                       /\ ev' = Event("begin", "sort", h.filters, h.sortKey,
                                      FALSE, m)
           ELSE /\ Commit(m0)
                /\ changes' = changes
                /\ inflight' = inflight
                /\ ev' = Event("input", "none", <<>>, "", FALSE, m0)
  /\ latestResolved' = (latestResolved /\ ~wired)
  /\ UNCHANGED <<catalog, started, wired, hadReset, loadsSinceReset,
                 loadingAborted, anyFailed, fq, fr>>

\* The user clicks the load-more button, which takes a click while it is
\* displayed.
ClickLoadMore ==
  /\ wired
  /\ dom.loadMore # "none"
  /\ LET m == LoadMoreProducts(Mem(<<>>, <<>>))
     IN  /\ Commit(m)
         /\ ev' = Event("loadMore", "loadMore", <<>>, "", FALSE, m)
  /\ loadsSinceReset' = loadsSinceReset + 1
  /\ UNCHANGED <<catalog, inflight, started, wired, hadReset, loadingAborted,
                 changes, anyFailed, latestResolved, fq, fr>>

\* The handlers still suspended once the i-th has settled; those called before
\* it have been overtaken when it resolved.
Others(i, resolved) ==
  RemoveAt([j \in 1..Len(inflight) |->
              IF resolved /\ j < i
                THEN [inflight[j] EXCEPT !.overtaken = TRUE]
                ELSE inflight[j]], i)

\* A resolution that drops the response of a handler overtaken by a later one.
FetchResolvesFenced(i) ==
  /\ i \in 1..Len(inflight)
  /\ LET h == inflight[i]
         result == FetchProducts(catalog, h.filters, h.sortKey)
         m == IF h.overtaken
                THEN Mem(h.trace, h.renders)
                ELSE Resume(h.kind, Mem(h.trace, h.renders), result)
     IN  /\ Commit(m)
         /\ ev' = Event("resolve", h.kind, h.filters, h.sortKey, h.overtaken, m)
         /\ wired' = (wired \/ h.kind = "init")
  /\ inflight' = Others(i, TRUE)
  /\ hadReset' = TRUE
  /\ loadsSinceReset' = 0
  /\ loadingAborted' = (loadingAborted /\ inflight[i].kind = "sort")
  /\ latestResolved' = /\ i = Len(inflight)
                       /\ ~inflight[i].overtaken
                       /\ inflight[i].kind # "init"
  /\ UNCHANGED <<catalog, started, changes, anyFailed, fq, fr>>

\* The fetch of the i-th suspended handler resolves: fetchProducts filters
\* and sorts the response and the handler runs to its end.
FetchResolves(i) ==
  /\ i \in 1..Len(inflight)
  /\ LET h == inflight[i]
         result == FetchProducts(catalog, h.filters, h.sortKey)
         m == Resume(h.kind, Mem(h.trace, h.renders), result)
     IN  /\ Commit(m)
         /\ ev' = Event("resolve", h.kind, h.filters, h.sortKey, h.overtaken, m)
         /\ wired' = (wired \/ h.kind = "init")
  /\ inflight' = Others(i, TRUE)
  /\ hadReset' = TRUE
  /\ loadsSinceReset' = 0
  /\ loadingAborted' = (loadingAborted /\ inflight[i].kind = "sort")
  /\ latestResolved' = /\ i = Len(inflight)
                       /\ ~inflight[i].overtaken
                       /\ inflight[i].kind # "init"
  /\ UNCHANGED <<catalog, started, changes, anyFailed, fq, fr>>

\* A failure caught by the handler, which clears the loading flag.
FetchFailsHandled(i) ==
  /\ i \in 1..Len(inflight)
  /\ LET h == inflight[i]
         m == SetState(Mem(h.trace, h.renders), "isLoading", FALSE)
     IN  /\ Commit(m)
         /\ ev' = Event("fail", h.kind, h.filters, h.sortKey, h.overtaken, m)
         /\ loadingAborted' = (loadingAborted \/ h.kind \in {"init", "filter"})
  /\ inflight' = Others(i, FALSE)
  /\ anyFailed' = TRUE
  /\ UNCHANGED <<catalog, started, wired, hadReset, loadsSinceReset, changes,
                 latestResolved, fq, fr>>

\* The fetch of the i-th suspended handler fails (network error, or a
\* response that is not the catalog): the await throws, nothing catches it
\* and the handler ends there.
FetchFails(i) ==
  /\ i \in 1..Len(inflight)
  /\ LET h == inflight[i]
         m == Mem(h.trace, h.renders)
     IN  /\ Commit(m)
         /\ ev' = Event("fail", h.kind, h.filters, h.sortKey, h.overtaken, m)
         /\ loadingAborted' = (loadingAborted \/ h.kind \in {"init", "filter"})
  /\ inflight' = Others(i, FALSE)
  /\ anyFailed' = TRUE
  /\ UNCHANGED <<catalog, started, wired, hadReset, loadsSinceReset, changes,
                 latestResolved, fq, fr>>

\* ------------------------------------------------------------ the application

InitialDom ==
  [ checked      |-> [i \in 1..Len(Checkboxes) |-> FALSE],
    sortValue    |-> "price",
    loadMore     |-> "",
    resultsCount |-> -1,
    container    |-> [text |-> "", cards |-> <<>>] ]

\* Lines 19-24 before init() is called; the counter of the markup holds no
\* count yet.
AppInit ==
  /\ catalog \in Catalogs
  /\ productsState = CreateState(<<>>)
  /\ visibleProductsState = CreateState(<<>>)
  /\ filtersState = CreateState(<<>>)
  /\ isLoading = CreateState(FALSE)
  /\ dom = InitialDom
  /\ inflight = <<>>
  /\ started = FALSE
  /\ wired = FALSE
  /\ ev = NoEvent
  /\ hadReset = FALSE
  /\ loadsSinceReset = 0
  /\ loadingAborted = FALSE
  /\ changes = 0
  /\ anyFailed = FALSE
  /\ latestResolved = FALSE

HarnessIdle ==
  /\ cell = CreateState(0)
  /\ fq = [data |-> <<>>, filters |-> <<>>, sortKey |-> "price"]
  /\ fr = [done |-> FALSE, value |-> <<>>]

Init == AppInit /\ HarnessIdle

Next ==
  \/ StartInit
  \/ \E i \in 1..Len(Checkboxes) : ToggleCheckbox(i)
  \/ \E k \in SortOptions : SelectSort(k)
  \/ ClickLoadMore
  \/ \E i \in 1..MaxChanges : FetchResolves(i)
  \/ \E i \in 1..MaxChanges : FetchFails(i)

Spec == Init /\ [][Next]_vars

\* ------------------------------------------------------------ every fetch resolves

\* The application when the endpoint answers every request.
NextLive ==
  \/ StartInit
  \/ \E i \in 1..Len(Checkboxes) : ToggleCheckbox(i)
  \/ \E k \in SortOptions : SelectSort(k)
  \/ ClickLoadMore
  \/ \E i \in 1..MaxChanges : FetchResolves(i)

\* The step of StartInit, seen on started alone.
InitCalled == ~started /\ started' = TRUE

\* The step of FetchResolves, seen on inflight alone: a pending handler
\* leaves, the ones called before it are marked as overtaken.
FetchAnswered == \E i \in 1..Len(inflight) : inflight' = Others(i, TRUE)

\* The script calls init() when it is loaded (line 188) and every pending
\* request is answered in the end; the user may stop at any time.  Of the
\* steps of NextLive only StartInit is an InitCalled step and only
\* FetchResolves is a FetchAnswered step, and each is enabled exactly when
\* the other is: the fairness is that of StartInit and of FetchResolves.
SpecLive ==
  /\ Init
  /\ [][NextLive]_vars
  /\ WF_started(InitCalled)
  /\ WF_inflight(FetchAnswered)

\* ------------------------------------------------------------ subscribing again

\* The stores the renderer is subscribed to (lines 145-146).
RenderedStores == {"visibleProductsState", "isLoading"}

\* store.subscribe(renderProducts) once more, on a store of the application
\* that init has subscribed the renderer to.
ResubscribeRenderer(name) ==
  /\ started
  /\ Len(Mem(<<>>, <<>>)[name].listeners) < MaxListeners
  /\ LET m == Subscribe(Mem(<<>>, <<>>), name, "renderProducts")
     IN  /\ Commit(m)
         /\ ev' = Event("subscribe", name, <<>>, "", FALSE, m)
  /\ UNCHANGED <<catalog, inflight, started, wired, hadReset, loadsSinceReset,
                 loadingAborted, changes, anyFailed,
                 latestResolved, fq, fr>>

\* The application without sort changes, with such subscriptions.
NextResubscribe ==
  \/ StartInit
  \/ \E i \in 1..Len(Checkboxes) : ToggleCheckbox(i)
  \/ \E name \in RenderedStores : ResubscribeRenderer(name)
  \/ ClickLoadMore
  \/ \E i \in 1..MaxChanges : FetchResolves(i)
  \/ \E i \in 1..MaxChanges : FetchFails(i)

SpecResubscribe == Init /\ [][NextResubscribe]_vars

\* ------------------------------------------------------------ one store

\* The values written to the store exercised on its own.
CellValues == 0..2

\* cell.subscribe(listener); the same listener may be registered again.
CellSubscribe(listener) ==
  /\ Len(cell.listeners) < MaxListeners
  /\ LET m == Subscribe(Mem(<<>>, <<>>), "cell", listener)
     IN  /\ Commit(m)
         /\ ev' = Event("subscribe", "cell", <<>>, "", FALSE, m)
  /\ UNCHANGED <<catalog, inflight, started, wired, hadReset, loadsSinceReset,
                 loadingAborted, changes, anyFailed,
                 latestResolved, fq, fr>>

\* cell.setState(value)
CellSetState(value) ==
  /\ LET m == SetState(Mem(<<>>, <<>>), "cell", value)
     IN  /\ Commit(m)
         /\ ev' = Event("setState", "cell", <<>>, "", FALSE, m)
  /\ UNCHANGED <<catalog, inflight, started, wired, hadReset, loadsSinceReset,
                 loadingAborted, changes, anyFailed,
                 latestResolved, fq, fr>>

NextStore ==
  \/ \E l \in Probes : CellSubscribe(l)
  \/ \E v \in CellValues : CellSetState(v)

SpecStore == Init /\ [][NextStore]_vars

\* ------------------------------------------------------------ the fetcher

\* The sort keys given to the fetcher on its own: the two it knows and one
\* it does not.
SortKeys == {"price", "name", "rating"}

\* Filter arrays of up to two entries.
FilterArrays ==
  {<<>>} \cup { <<a>> : a \in {"Shoes", "hats"} }
         \cup { <<a, b>> : a \in {"Shoes", "hats"}, b \in {"Shoes", "hats"} }

\* Responses of n products: every choice of category and price.
DataOfLen(n) ==
  { [i \in 1..n |->
       [ id       |-> i,
         title    |-> Titles[(i % 2) + 1],
         price    |-> c[i][2],
         category |-> c[i][1] ]] :
    c \in [1..n -> {"shoes", "Hats", "bags"} \X {500, 1999}] }

DataSets == UNION { DataOfLen(n) : n \in 0..MaxData }

InitFetch ==
  /\ AppInit
  /\ cell = CreateState(0)
  /\ fq \in [data : DataSets, filters : FilterArrays, sortKey : SortKeys]
  /\ fr = [done |-> FALSE, value |-> <<>>]

\* fetchProducts(fq.filters, fq.sortKey) with the endpoint answering fq.data.
RunFetch ==
  /\ ~fr.done
  /\ fr' = [done |-> TRUE,
            value |-> FetchProducts(fq.data, fq.filters, fq.sortKey)]
  /\ UNCHANGED <<appVars, cell, ev, fq>>

NextFetch == RunFetch

SpecFetch == InitFetch /\ [][NextFetch]_vars

\* ------------------------------------------------------------ properties

\* The effects of a trace that are not listener calls.
Writes(trace) == SelectSeq(trace, LAMBDA e : e.op # "call")

Is(e, op, target) == e.op = op /\ e.target = target

\* A handler of the given kinds is suspended at its fetch.
InProgress(kinds) == \E i \in 1..Len(inflight) : inflight[i].kind \in kinds

\* C1: between tasks the visible window is an index-wise prefix of the full
\* product sequence held at that moment, so it is never longer.
C1_WindowIsPrefix ==
  IsPrefix(GetState(visibleProductsState), GetState(productsState))

\* C1 witness: a window of more than one page, still short of the full
\* sequence, while another fetch is pending.
C1_Witness ==
  /\ Len(GetState(visibleProductsState)) > PageSize
  /\ Len(GetState(visibleProductsState)) < Len(GetState(productsState))
  /\ inflight # <<>>
  /\ C1_WindowIsPrefix

\* C2: after N load-more invocations since the last reset (init, a completed
\* filter change or a completed sort change) the window holds
\* min(10 + 10*N, L) products, L the length of the full sequence.
C2_WindowLength ==
  hadReset =>
    Len(GetState(visibleProductsState)) =
      Min(10 + 10 * loadsSinceReset, Len(GetState(productsState)))

\* C2 witness: two load-more invocations made while a fetch is pending have
\* brought the window to the full length.
C2_Witness ==
  /\ hadReset
  /\ loadsSinceReset = 2
  /\ inflight # <<>>
  /\ Len(GetState(productsState)) > 2 * PageSize
  /\ Len(GetState(visibleProductsState)) = Len(GetState(productsState))

\* C3 as stated: the loading flag is true only while an init or a filter
\* change that set it is in progress (fetch issued, store writes not done).
C3_Original ==
  GetState(isLoading) = TRUE => InProgress({"init", "filter"})

\* C3 amended: the loading flag is true only while an init or a filter change
\* is in progress, or after the fetch of one has failed and no init or filter
\* change has run to its end since.
C3_LoadingOnlyInCycleOrAborted ==
  GetState(isLoading) = TRUE =>
    InProgress({"init", "filter"}) \/ loadingAborted

\* C3 witness: the flag is true with a filter change in progress and nothing
\* aborted.
C3_Witness ==
  /\ GetState(isLoading) = TRUE
  /\ InProgress({"filter"})
  /\ ~loadingAborted

C5_LastResolvedWins ==
  [][ /\ ev'.op = "resolve" =>
           /\ GetState(productsState') =
                FetchProducts(catalog, ev'.filters, ev'.sortKey)
           /\ GetState(visibleProductsState') =
                SubSeq(GetState(productsState'), 1,
                       Min(10, Len(GetState(productsState'))))
           /\ Len(inflight') = Len(inflight) - 1
      /\ ev'.op = "begin" =>
           /\ Len(inflight') = Len(inflight) + 1
           /\ SubSeq(inflight', 1, Len(inflight)) = inflight
      /\ ev'.op \notin {"resolve", "fail", "begin"} => inflight' = inflight
    ]_vars

\* C5 witness: of two overlapping handlers the one called first resolved
\* last, and the stores hold its result, not that of the page's inputs.
C5_Witness ==
  /\ ev.op = "resolve"
  /\ ev.overtaken
  /\ inflight = <<>>
  /\ GetState(productsState) = FetchProducts(catalog, ev.filters, ev.sortKey)
  /\ GetState(productsState) #
       FetchProducts(catalog, GetState(filtersState), dom.sortValue)

\* C6: a filter change whose fetch succeeds performs exactly these effects,
\* in this order: flag true, filter set written with the checked checkboxes,
\* fetch with (filter set, sort selector), product sequence replaced, flag
\* false, visible window written with the first page, load-more shown.
C6_FilterChangeOrder ==
  /\ (ev.op = "begin" /\ ev.kind = "filter") =>
       LET w == Writes(ev.trace)
       IN  /\ Len(w) = 3
           /\ Is(w[1], "setState", "isLoading") /\ w[1].val = TRUE
           /\ Is(w[2], "setState", "filtersState")
           /\ w[2].val = SelectedFilters(dom)
           /\ Is(w[3], "fetch", "fetchProducts")
           /\ w[3].val = [filters |-> w[2].val, sortKey |-> dom.sortValue]
  /\ (ev.op = "resolve" /\ ev.kind = "filter") =>
       LET w == Writes(ev.trace)
       IN  /\ Len(w) = 7
           /\ Is(w[1], "setState", "isLoading") /\ w[1].val = TRUE
           /\ Is(w[2], "setState", "filtersState")
           /\ Is(w[3], "fetch", "fetchProducts")
           /\ w[3].val.filters = w[2].val
           /\ Is(w[4], "setState", "productsState")
           /\ w[4].val = FetchProducts(catalog, w[3].val.filters,
                                       w[3].val.sortKey)
           /\ Is(w[5], "setState", "isLoading") /\ w[5].val = FALSE
           /\ Is(w[6], "setState", "visibleProductsState")
           /\ w[6].val = SubSeq(w[4].val, 1, Min(10, Len(w[4].val)))
           /\ Is(w[7], "dom", "load-more") /\ w[7].val = "block"
           /\ dom.loadMore = "block"

\* C6 witness: a filter change with both checkboxes checked has run to its
\* end and its result fills more than one page.
C6_Witness ==
  /\ ev.op = "resolve"
  /\ ev.kind = "filter"
  /\ Len(ev.filters) = 2
  /\ Len(GetState(productsState)) > PageSize
  /\ Len(GetState(visibleProductsState)) = PageSize

\* C7: no step of a sort change writes the loading flag or the filter set
\* store: both are after the step as they were before it.
C7_SortChangeFrame ==
  [][ ev'.kind = "sort" =>
        /\ isLoading' = isLoading
        /\ filtersState' = filtersState
        /\ \A k \in 1..Len(ev'.trace) :
             ~ Is(ev'.trace[k], "setState", "isLoading")
             /\ ~ Is(ev'.trace[k], "setState", "filtersState")
    ]_vars

\* C7 witness: a sort change has resolved while the loading flag was true and
\* has left it true.
C7_Witness ==
  /\ ev.op = "resolve"
  /\ ev.kind = "sort"
  /\ GetState(isLoading) = TRUE
  /\ InProgress({"filter"})

\* C8: setState replaces the value, then calls every registered subscriber
\* once per registration, in registration order and with no arguments, before
\* it returns; a subscriber reading the store during the call reads the new
\* value.
C8_WriteThenNotifyInOrder ==
  ev.op = "setState" =>
    /\ Len(ev.trace) = 1 + Len(cell.listeners)
    /\ Is(ev.trace[1], "setState", "cell")
    /\ ev.trace[1].val = GetState(cell)
    /\ \A k \in 1..Len(cell.listeners) :
         /\ Is(ev.trace[k + 1], "call", cell.listeners[k])
         /\ ev.trace[k + 1].val = <<>>
    /\ Len(ev.probes) = Len(cell.listeners)
    /\ \A k \in 1..Len(cell.listeners) :
         /\ ev.probes[k].listener = cell.listeners[k]
         /\ ev.probes[k].read = GetState(cell)

\* C8 witness: a write of a new value to a store with three different
\* subscribers.
C8_Witness ==
  /\ ev.op = "setState"
  /\ Len(cell.listeners) = 3
  /\ Cardinality({ cell.listeners[k] : k \in 1..3 }) = 3
  /\ GetState(cell) # 0
  /\ Len(ev.probes) = 3

\* C9: every write to the visible window or to the loading flag is followed
\* at once by a run of the renderer, so between tasks the page agrees with
\* the stores: the counter shows the window's length, and the container shows
\* the placeholder and no card while the flag is true, else one card per
\* product of the window, in window order.
C9_PageAgreesWithStores ==
  started =>
    /\ dom.resultsCount = Len(GetState(visibleProductsState))
    /\ IF GetState(isLoading) = TRUE
         THEN dom.container = [text |-> "Loading...", cards |-> <<>>]
         ELSE /\ dom.container.text = ""
              /\ Len(dom.container.cards) = Len(GetState(visibleProductsState))
              /\ \A k \in 1..Len(dom.container.cards) :
                   dom.container.cards[k] =
                     [ image |-> GetState(visibleProductsState)[k].id,
                       title |-> GetState(visibleProductsState)[k].title,
                       price |-> ToFixed2(GetState(visibleProductsState)[k].price) ]
    /\ \A k \in 1..Len(ev.trace) :
         (ev.trace[k].op = "setState"
            /\ ev.trace[k].target \in {"visibleProductsState", "isLoading"})
         => /\ k < Len(ev.trace)
            /\ Is(ev.trace[k + 1], "call", "renderProducts")

\* C9 witness: two pages of cards on the page while a fetch is pending.
C9_Witness ==
  /\ started
  /\ GetState(isLoading) = FALSE
  /\ Len(dom.container.cards) = 2 * PageSize
  /\ dom.resultsCount = 2 * PageSize
  /\ inflight # <<>>

\* The products of a sequence, and how often one occurs in it.
Occurrences(s, p) == Cardinality({ k \in 1..Len(s) : s[k] = p })

\* C10: the fetcher's result holds, once each, exactly the products of the
\* response whose category equals some entry of the filters ignoring case
\* (all of them when there is no filter) and nothing else.
C10_FilterKeepsExactlyMatches ==
  fr.done =>
    /\ \A k \in 1..Len(fq.data) :
         Occurrences(fr.value, fq.data[k]) =
           IF \/ fq.filters = <<>>
              \/ \E j \in 1..Len(fq.filters) :
                   ToLowerCase(fq.data[k].category) = ToLowerCase(fq.filters[j])
             THEN 1 ELSE 0
    /\ \A k \in 1..Len(fr.value) :
         \E j \in 1..Len(fq.data) : fr.value[k] = fq.data[j]

\* C10 witness: with two filters, a product whose category differs from a
\* filter only by case is kept, one matching the second filter is kept and one
\* matching neither is dropped.
C10_Witness ==
  /\ fr.done
  /\ fq.filters = <<"Shoes", "hats">>
  /\ Len(fq.data) = 3
  /\ Len(fr.value) = 2
  /\ \E k \in 1..2 : fr.value[k].category = "shoes"
  /\ \E k \in 1..2 : fr.value[k].category = "Hats"
  /\ \E k \in 1..3 : fq.data[k].category = "bags"

\* C11: with sort key "price" the fetcher's result is in non-decreasing price
\* order, and products of equal price keep the order they had in the
\* response (the id of a product is its place in the response).
C11_PriceSortStable ==
  (fr.done /\ fq.sortKey = "price") =>
    /\ \A k \in 1..(Len(fr.value) - 1) :
         fr.value[k].price <= fr.value[k + 1].price
    /\ \A k \in 1..Len(fr.value) : \A l \in 1..Len(fr.value) :
         (k < l /\ fr.value[k].price = fr.value[l].price)
           => fr.value[k].id < fr.value[l].id

\* C11 witness: three products kept, the dearest first in the response and
\* last in the result, the two of equal price behind it in response order.
C11_Witness ==
  /\ fr.done
  /\ fq.sortKey = "price"
  /\ Len(fr.value) = 3
  /\ fq.data[1].price > fq.data[2].price
  /\ fq.data[2].price = fq.data[3].price
  /\ fr.value[1].id = 2
  /\ fr.value[2].id = 3
  /\ fr.value[3].id = 1

\* C12: a load-more invocation appends to the visible window the next
\* min(10, remaining) products of the full sequence, in its order, remaining
\* being the sequence's length minus the window's; it hides the load-more
\* button when the new window is at least as long as the sequence and leaves
\* the button as it was otherwise.
C12_ExtendAppendsNextPage ==
  [][ ev'.op = "loadMore" =>
        LET all == GetState(productsState)
            old == GetState(visibleProductsState)
            new == GetState(visibleProductsState')
            remaining == Len(all) - Len(old)
            n == Min(10, remaining)
        IN  /\ productsState' = productsState
            /\ Len(new) = Len(old) + n
            /\ SubSeq(new, 1, Len(old)) = old
            /\ \A k \in 1..n : new[Len(old) + k] = all[Len(old) + k]
            /\ IF Len(new) >= Len(all)
                 THEN dom'.loadMore = "none"
                 ELSE dom'.loadMore = dom.loadMore
    ]_vars

\* C12 witness: with 25 products the third page of 5 has been appended to the
\* 20 shown and the button is hidden.
C12_Witness ==
  /\ ev.op = "loadMore"
  /\ loadsSinceReset = 2
  /\ Len(GetState(productsState)) = 25
  /\ Len(GetState(visibleProductsState)) = 25
  /\ dom.loadMore = "none"

\* C13: one write to the visible window store or to the loading flag store
\* runs the renderer exactly once, also after the renderer has been
\* registered again on a store it is subscribed to: in the trace of every
\* task, each such write is followed by one renderer call and no second one.
C13_RendersOncePerWrite ==
  started =>
    \A k \in 1..Len(ev.trace) :
      (ev.trace[k].op = "setState" /\ ev.trace[k].target \in RenderedStores)
      => /\ k < Len(ev.trace)
         /\ Is(ev.trace[k + 1], "call", "renderProducts")
         /\ (k + 2 <= Len(ev.trace) => ev.trace[k + 2].op # "call")

\* The places in a trace of the listener calls, in order: the j-th run of the
\* renderer in a task is the j-th of them.
CallPlaces(trace) ==
  LET f[i \in 0..Len(trace)] ==
        IF i = 0 THEN <<>>
        ELSE IF trace[i].op = "call" THEN Append(f[i - 1], i)
        ELSE f[i - 1]
  IN  f[Len(trace)]

\* The j-th run of the renderer in the last task was set off by a filter
\* change writing false to the loading flag.
ByFilterFlagReset(j) ==
  LET k == CallPlaces(ev.trace)[j]
  IN  /\ ev.kind = "filter"
      /\ k > 1
      /\ Is(ev.trace[k - 1], "setState", "isLoading")
      /\ ev.trace[k - 1].val = FALSE

\* C14 as stated: whenever the renderer draws cards, also in the middle of a
\* handler's store writes, the window it draws is an index-wise prefix of the
\* product sequence held at that moment.
C14_Original ==
  \A j \in 1..Len(ev.renders) :
    ~ev.renders[j].loading
      => IsPrefix(ev.renders[j].visible, ev.renders[j].products)

\* C14 amended: whenever the renderer draws cards, the window it draws is an
\* index-wise prefix of the product sequence held at that moment, except in
\* the run set off by a filter change writing false to the loading flag,
\* which draws the window of before the change against the new sequence.
C14_DrawnWindowIsPrefixButAtFlagReset ==
  /\ Len(CallPlaces(ev.trace)) = Len(ev.renders)
  /\ \A j \in 1..Len(ev.renders) :
       ~ev.renders[j].loading
         => \/ IsPrefix(ev.renders[j].visible, ev.renders[j].products)
            \/ ByFilterFlagReset(j)

\* C14 witness: a filter change has run to its end; the renderer run set off
\* by its flag reset drew a window that is no prefix of the new sequence, and
\* the run after it drew the first page of that sequence.
C14_Witness ==
  /\ ev.op = "resolve"
  /\ ev.kind = "filter"
  /\ Len(ev.renders) = 3
  /\ ByFilterFlagReset(2)
  /\ ~ev.renders[2].loading
  /\ ~IsPrefix(ev.renders[2].visible, ev.renders[2].products)
  /\ ~ev.renders[3].loading
  /\ ~ByFilterFlagReset(3)
  /\ IsPrefix(ev.renders[3].visible, ev.renders[3].products)
  /\ Len(ev.renders[3].visible) > 0

\* What the fetcher answers for the filters held by the store and the
\* option held by the sort selector.
FetchForCurrentInputs ==
  FetchProducts(catalog, GetState(filtersState), dom.sortValue)

\* C15 as stated: whenever no fetch is in flight and no fetch has failed, the
\* product store holds the fetcher's result for the current value of the
\* filter store and the current value of the sort selector.
C15_Original ==
  (started /\ inflight = <<>> /\ ~anyFailed)
    => GetState(productsState) = FetchForCurrentInputs

\* C15 amended: whenever no fetch is in flight, no fetch has failed and the
\* fetch that resolved last is that of the filter or sort change made last,
\* the product store holds the fetcher's result for the current value of the
\* filter store and the current value of the sort selector.
C15_ProductsFollowLatestChange ==
  (inflight = <<>> /\ ~anyFailed /\ latestResolved)
    => GetState(productsState) = FetchForCurrentInputs

\* C15 witness: three changes have been handled and the fetch of the last
\* of them has resolved last; the store holds the products of the selected
\* categories sorted by name.
C15_Witness ==
  /\ inflight = <<>>
  /\ ~anyFailed
  /\ latestResolved
  /\ changes = MaxChanges
  /\ ev.op = "resolve"
  /\ GetState(filtersState) # <<>>
  /\ dom.sortValue = "name"
  /\ GetState(productsState) = FetchForCurrentInputs
  /\ GetState(productsState) # FetchProducts(catalog, <<>>, "price")
  /\ GetState(productsState) # FetchProducts(catalog, <<>>, "name")

\* C16: when every fetch resolves and the user makes finitely many filter and
\* sort changes, the loading flag is false from some moment on, whatever the
\* order in which the fetches resolve.
C16_LoadingEventuallyStaysFalse ==
  <>[](GetState(isLoading) = FALSE)

\* C16 witness: every change the user makes has been handled, the fetch of a
\* filter change has resolved last although a later change's fetch had
\* resolved before it, and the flag is false with no fetch in flight.
C16_Witness ==
  /\ changes = MaxChanges
  /\ inflight = <<>>
  /\ ~anyFailed
  /\ ev.op = "resolve"
  /\ ev.kind = "filter"
  /\ ev.overtaken
  /\ GetState(isLoading) = FALSE

\* C17: between tasks, while the load-more button is hidden the visible
\* window holds the whole product sequence; also once a filter or sort change
\* has resolved after the click that hid the button.
C17_HiddenMeansAllVisible ==
  dom.loadMore = "none"
    => Len(GetState(visibleProductsState)) = Len(GetState(productsState))

\* C17 witness: the button is hidden over a window longer than the first
\* page, which holds every product, while the fetch of a change is pending.
C17_Witness ==
  /\ dom.loadMore = "none"
  /\ inflight # <<>>
  /\ Len(GetState(visibleProductsState)) > PageSize
  /\ Len(GetState(visibleProductsState)) = Len(GetState(productsState))

\* C18 as stated: between tasks, once init has run to its end, while the
\* load-more button is shown the visible window is strictly shorter than the
\* product sequence, so that a click on it adds at least one product.
C18_ShownMeansMoreToShow ==
  (wired /\ dom.loadMore # "none")
    => Len(GetState(visibleProductsState)) < Len(GetState(productsState))

=============================================================================
